---- MODULE Spec2Model ----
(***************************************************************************)
(* Model of encode.py: a command-line front end that builds one ffmpeg     *)
(* command per selected resolution profile and runs the commands one after *)
(* the other, stopping at the first non-zero exit status.                  *)
(*                                                                         *)
(* Python values are modelled as follows.  A string is a TLA+ string, a    *)
(* list is a sequence, None is <<>> and a supplied optional value v is     *)
(* <<v>> (so "--soft ''" is <<"">>, distinct from an omitted --soft).      *)
(* A dict is the sequence of its keys in insertion order plus the          *)
(* function from key to value.                                             *)
(*                                                                         *)
(* The command line varies in --soft, --burn and --resolutions, the three  *)
(* options that decide control flow; the remaining options keep the        *)
(* defaults of the parser and only feed literal text into the command.     *)
(***************************************************************************)
EXTENDS Integers, Sequences, FiniteSets, TLC

VARIABLES
    pc,         \* position of the script: idle, loop, running, done, rejected
    argv,       \* the options as typed: [soft, burn, resolutions]
    args,       \* the Namespace returned by parse_args (<<>> before it)
    selected,   \* keys of the dict `selected`, in iteration order
    idx,        \* position of the for loop in selected.items()
    running,    \* child processes started and not yet exited (dispatch numbers)
    dispatched, \* history: every subprocess.run call, [name, pos, cmd]
    exits,      \* history: return code of every child that exited
    stdout,     \* lines printed to standard output
    stderr,     \* lines printed to standard error
    exitCode    \* <<>> while the script runs, <<c>> once it exited with c

vars == <<pc, argv, args, selected, idx, running, dispatched, exits,
          stdout, stderr, exitCode>>

(*************************** bounds of the model ***************************)
\* longest list of values typed after --resolutions
MaxReq == 3
\* largest child exit status (0 is success)
MaxRc == 1

(******************************* helpers ***********************************)
None == <<>>
Some(v) == <<v>>

Range(s) == {s[i] : i \in 1..Len(s)}

RECURSIVE SeqsUpTo(_, _)
SeqsUpTo(S, n) ==
    IF n = 0 THEN {<<>>}
    ELSE LET shorter == SeqsUpTo(S, n - 1)
         IN  shorter \cup {Append(s, e) : s \in {t \in shorter : Len(t) = n - 1}, e \in S}

\* Python truthiness of an optional string: None and '' are both false
Truthy(opt) == IF opt = None THEN FALSE ELSE opt[1] # ""

Digit(d) == CASE d = 0 -> "0" [] d = 1 -> "1" [] d = 2 -> "2" [] d = 3 -> "3"
              [] d = 4 -> "4" [] d = 5 -> "5" [] d = 6 -> "6" [] d = 7 -> "7"
              [] d = 8 -> "8" [] d = 9 -> "9"

RECURSIVE NatToStr(_)
NatToStr(n) == IF n < 10 THEN Digit(n) ELSE NatToStr(n \div 10) \o Digit(n % 10)

\* str(int) / f-string formatting of an int
IntToStr(n) == IF n < 0 THEN "-" \o NatToStr(-n) ELSE NatToStr(n)

\* sep.join(parts)
Join(parts, sep) ==
    LET joined[i \in 0..Len(parts)] ==
            IF i = 0 THEN ""
            ELSE IF i = 1 THEN parts[1]
            ELSE joined[i - 1] \o sep \o parts[i]
    IN  joined[Len(parts)]

(***************************** the parser **********************************)
Choices == {"all", "1080p", "720p", "480p", "360p"}

\* values a user may type after --resolutions ("4k" is not among the choices)
TypedNames == Choices \cup {"4k"}

\* values a user may type after --soft or --burn
TypedPaths == {"", "subs.srt"}

OptPaths == {None} \cup {Some(p) : p \in TypedPaths}

OptRequests == {None} \cup {Some(r) : r \in SeqsUpTo(TypedNames, MaxReq)}

ScriptDir == "/opt/run"

FontPath == ScriptDir \o "/" \o "NeometricAlt-HeavyItalic.ttf"

MutexOff(soft, burn) == TRUE

\* add_mutually_exclusive_group: --soft and --burn may not both be given
MutexOK(soft, burn) == ~(soft # None /\ burn # None)

NargsStar(res) == TRUE

\* nargs='+': the flag, when given, takes at least one value
NargsOK(res) == IF res = None THEN TRUE ELSE Len(res[1]) >= 1

\* choices=[...]: every value given is one of the choices
ChoicesOK(res) == IF res = None THEN TRUE ELSE Range(res[1]) \subseteq Choices

ParseOK(a) == MutexOK(a.soft, a.burn) /\ NargsOK(a.resolutions) /\ ChoicesOK(a.resolutions)

DefaultResolutions == <<"all">>

\* the Namespace parse_args returns for an accepted command line
Namespace(a) ==
    [input |-> "in.mkv", output |-> "out",
     x |-> 20, y |-> 40, fontsize |-> 30, fontcolor |-> "white@0.5",
     pix_fmt |-> "yuv420p", soft |-> a.soft, burn |-> a.burn, lang |-> "ar",
     watermark |-> "HALASHOW.COM",
     resolutions |-> IF a.resolutions = None THEN DefaultResolutions
                     ELSE a.resolutions[1]]

(************************* the profile table *******************************)
\* keys of the dict `resolutions`, in insertion order
TableOrder == <<"1080p", "720p", "480p", "360p">>

resolutions ==
    [n \in Range(TableOrder) |->
        CASE n = "1080p" -> [res |-> "1920x1080", bitrate |-> "3000k", maxrate |-> "3500k",
                             bufsize |-> "6000k", audio |-> "125k", sample_rate |-> 48000]
          [] n = "720p"  -> [res |-> "1280x720", bitrate |-> "2000k", maxrate |-> "2500k",
                             bufsize |-> "4000k", audio |-> "110k", sample_rate |-> 48000]
          [] n = "480p"  -> [res |-> "854x480", bitrate |-> "1000k", maxrate |-> "1500k",
                             bufsize |-> "2000k", audio |-> "90k", sample_rate |-> 44100]
          [] n = "360p"  -> [res |-> "640x360", bitrate |-> "700k", maxrate |-> "1200k",
                             bufsize |-> "1400k", audio |-> "75k", sample_rate |-> 44100]]

(**************************** the selector *********************************)
ListAppend(keys, k) == Append(keys, k)

\* d[k] = v on a dict with keys `keys`: a new key goes last, an old one stays
DictInsert(keys, k) == IF k \in Range(keys) THEN keys ELSE Append(keys, k)

DictCompTableOrder(req, keys) ==
    LET Wanted(n) == n \in Range(req)
    IN  SelectSeq(TableOrder, Wanted)

RECURSIVE DictComp(_, _)
\* {r: resolutions[r] for r in req if r in resolutions}, keys accumulated in `keys`
DictComp(req, keys) ==
    IF Len(req) = 0 THEN keys
    ELSE DictComp(Tail(req),
                  IF Head(req) \in DOMAIN resolutions THEN DictInsert(keys, Head(req))
                  ELSE keys)

SelectAllAlone(req) == IF req = <<"all">> THEN TableOrder ELSE DictComp(req, <<>>)

\* selected = resolutions if "all" in args.resolutions else {...}
Select(req) == IF "all" \in Range(req) THEN TableOrder ELSE DictComp(req, <<>>)

(************************ the command assembler ****************************)
\* the list `filters`: scaling, optional burn-in, text overlay
Filters(resolution, burn_sub, font_path, text, x, y, fontsize, fontcolor) ==
    <<"scale=" \o resolution>>
    \o (IF Truthy(burn_sub) THEN <<"subtitles='" \o burn_sub[1] \o "'">> ELSE <<>>)
    \o <<"drawtext=fontfile='" \o font_path \o "':text='" \o text
         \o "':x=" \o IntToStr(x) \o ":y=" \o IntToStr(y)
         \o ":fontsize=" \o IntToStr(fontsize) \o ":fontcolor=" \o fontcolor>>

\* filter_complex = ",".join(filters)
FilterComplex(resolution, burn_sub, font_path, text, x, y, fontsize, fontcolor) ==
    Join(Filters(resolution, burn_sub, font_path, text, x, y, fontsize, fontcolor), ",")

\* the list ffmpeg_cmd handed to subprocess.run
FfmpegCmd(input_file, output_file, filter_complex, bitrate, audio_bitrate, maxrate, bufsize, pix_fmt, sample_rate, soft_sub, lang) ==
    <<"ffmpeg", "-threads", "0", "-i", input_file>>
    \o (IF Truthy(soft_sub) THEN <<"-i", soft_sub[1]>> ELSE <<>>)
    \o <<"-vf", filter_complex>>
    \o <<"-map", "0:v", "-map", "0:a">>
    \o (IF Truthy(soft_sub) THEN <<"-map", "1:0">> ELSE <<>>)
    \o <<"-c:v", "libx264", "-profile:v", "high", "-pix_fmt", pix_fmt,
         "-b:v", bitrate, "-maxrate", maxrate, "-bufsize", bufsize,
         "-preset", "medium">>
    \o <<"-c:a", "aac", "-b:a", audio_bitrate, "-ar", IntToStr(sample_rate), "-ac", "2">>
    \o (IF Truthy(soft_sub)
        THEN <<"-c:s", "mov_text", "-metadata:s:s:0", "language=" \o lang>>
        ELSE <<>>)
    \o <<"-map_metadata", "-1", "-map_chapters", "-1", "-movflags", "+faststart",
         "-dn", output_file>>

OutFileNoName(output, name) == output \o ".mp4"

\* out_file = f"{args.output}_{name}.mp4"
OutFile(output, name) == output \o "_" \o name \o ".mp4"

\* the call encode_video(...) of the loop body, up to the finished ffmpeg_cmd
EncodeCmd(a, name) ==
    LET opts == resolutions[name]
    IN  FfmpegCmd(a.input, OutFile(a.output, name),
                  FilterComplex(opts.res, a.burn, FontPath, a.watermark,
                                a.x, a.y, a.fontsize, a.fontcolor),
                  opts.bitrate, opts.audio, opts.maxrate, opts.bufsize,
                  a.pix_fmt, opts.sample_rate, a.soft, a.lang)

FailedIgnored(rc) == FALSE

\* if process.returncode != 0
Failed(rc) == rc # 0

NextIdxSkip(i) == i + 2

\* the for loop moves to the next item of selected.items()
NextIdx(i) == i + 1

(******************************* the run ***********************************)
Init ==
    /\ pc = "idle"
    /\ argv = None
    /\ args = None
    /\ selected = <<>>
    /\ idx = 1
    /\ running = {}
    /\ dispatched = <<>>
    /\ exits = <<>>
    /\ stdout = <<>>
    /\ stderr = <<>>
    /\ exitCode = None

CommandLines == [soft : OptPaths, burn : OptPaths, resolutions : OptRequests]

\* parse_args accepts the command line; the profiles are selected
ParseAccept ==
    /\ pc = "idle"
    /\ \E a \in CommandLines :
         /\ ParseOK(a)
         /\ argv' = a
         /\ args' = Namespace(a)
         /\ selected' = Select(Namespace(a).resolutions)
    /\ pc' = "loop"
    /\ idx' = 1
    /\ UNCHANGED <<running, dispatched, exits, stdout, stderr, exitCode>>

\* parse_args rejects the command line: usage error, exit status 2
ParseReject ==
    /\ pc = "idle"
    /\ \E a \in CommandLines :
         /\ ~ParseOK(a)
         /\ argv' = a
    /\ pc' = "rejected"
    /\ stderr' = Append(stderr, "usage error")
    /\ exitCode' = Some(2)
    /\ UNCHANGED <<args, selected, idx, running, dispatched, exits, stdout>>

\* one loop iteration up to subprocess.run: the child starts, the script blocks
Dispatch ==
    /\ pc = "loop"
    /\ idx <= Len(selected)
    /\ dispatched' = Append(dispatched, [name |-> selected[idx], pos |-> idx,
                                         cmd |-> EncodeCmd(args, selected[idx])])
    /\ running' = running \cup {Len(dispatched) + 1}
    /\ stdout' = stdout \o <<"Processing: " \o args.input \o " -> "
                                \o OutFile(args.output, selected[idx]),
                             "Running FFmpeg:\n"
                                \o Join(dispatched'[Len(dispatched')].cmd, " ")>>
    /\ pc' = "running"
    /\ UNCHANGED <<argv, args, selected, idx, exits, stderr, exitCode>>

\* the child exits with status 0: encode_video returns, the loop goes on
ProcExitOk ==
    /\ pc = "running"
    /\ \E p \in running, rc \in 0..MaxRc :
         /\ ~Failed(rc)
         /\ running' = running \ {p}
         /\ exits' = Append(exits, rc)
    /\ idx' = NextIdx(idx)
    /\ pc' = "loop"
    /\ UNCHANGED <<argv, args, selected, dispatched, stdout, stderr, exitCode>>

\* the child exits with a non-zero status: error message, sys.exit(1)
ProcExitFail ==
    /\ pc = "running"
    /\ \E p \in running, rc \in 0..MaxRc :
         /\ Failed(rc)
         /\ running' = running \ {p}
         /\ exits' = Append(exits, rc)
    /\ stderr' = Append(stderr, "Error: Encoding failed!")
    /\ exitCode' = Some(1)
    /\ pc' = "done"
    /\ UNCHANGED <<argv, args, selected, idx, dispatched, stdout>>

\* the loop is exhausted: the script prints its last line and ends with status 0
LoopEnd ==
    /\ pc = "loop"
    /\ idx > Len(selected)
    /\ stdout' = Append(stdout, "Encoding complete!")
    /\ exitCode' = Some(0)
    /\ pc' = "done"
    /\ UNCHANGED <<argv, args, selected, idx, running, dispatched, exits, stderr>>

Next ==
    \/ ParseAccept
    \/ ParseReject
    \/ Dispatch
    \/ ProcExitOk
    \/ ProcExitFail
    \/ LoopEnd

Spec == Init /\ [][Next]_vars

\* a started child eventually exits, one way or the other
ProcExit == ProcExitOk \/ ProcExitFail

\* after parse_args the script takes its own steps and every child it waits
\* for eventually exits
FairSpec == Spec /\ WF_vars(Dispatch) /\ WF_vars(ProcExit) /\ WF_vars(LoopEnd)

(*********************** the selector on its own ****************************)
\* the selector applied to any list of names, the ones the parser would
\* refuse included
SelInit ==
    /\ pc = "select"
    /\ argv \in {[soft |-> None, burn |-> None, resolutions |-> Some(r)] :
                   r \in SeqsUpTo(TypedNames, MaxReq)}
    /\ args = None
    /\ selected = <<>>
    /\ idx = 1
    /\ running = {}
    /\ dispatched = <<>>
    /\ exits = <<>>
    /\ stdout = <<>>
    /\ stderr = <<>>
    /\ exitCode = None

SelApply ==
    /\ pc = "select"
    /\ selected' = Select(argv.resolutions[1])
    /\ pc' = "selected"
    /\ UNCHANGED <<argv, args, idx, running, dispatched, exits, stdout, stderr, exitCode>>

SelNext == SelApply

SelSpec == SelInit /\ [][SelNext]_vars

(************************ vocabulary of the claims **************************)
ProfileNames == {"1080p", "720p", "480p", "360p"}

FixedOrder == <<"1080p", "720p", "480p", "360p">>

Parsed == pc \in {"loop", "running", "done"}

\* the names typed after --resolutions (none when the flag is omitted)
Typed == IF argv = None THEN <<>>
         ELSE IF argv.resolutions = None THEN <<>> ELSE argv.resolutions[1]

FlagOmitted == IF argv = None THEN FALSE ELSE argv.resolutions = None

WantsAll == FlagOmitted \/ "all" \in Range(Typed)

\* the profiles a command line asks for
Wanted == IF WantsAll THEN ProfileNames ELSE Range(Typed) \cap ProfileNames

SoftSupplied == IF argv = None THEN FALSE ELSE argv.soft # None

BurnSupplied == IF argv = None THEN FALSE ELSE argv.burn # None

LastToken(cmd) == cmd[Len(cmd)]

Count(cmd, tok) == Cardinality({i \in 1..Len(cmd) : cmd[i] = tok})

\* the token that follows the first occurrence of flag
Arg(cmd, flag) ==
    LET first == CHOOSE i \in 1..Len(cmd) :
                    cmd[i] = flag /\ \A j \in 1..(i - 1) : cmd[j] # flag
    IN  cmd[first + 1]

\* the values of all occurrences of flag, in order
RECURSIVE Args(_, _)
Args(cmd, flag) ==
    IF Len(cmd) < 2 THEN <<>>
    ELSE IF Head(cmd) = flag THEN <<cmd[2]>> \o Args(Tail(Tail(cmd)), flag)
    ELSE Args(Tail(cmd), flag)

FirstIndex(s, e) == CHOOSE i \in 1..Len(s) : s[i] = e /\ \A j \in 1..(i - 1) : s[j] # e

SuccessLine == "Encoding complete!"

\* the text-overlay stage for the default font, watermark, position, size, colour
OverlayStage ==
    "drawtext=fontfile='/opt/run/NeometricAlt-HeavyItalic.ttf':text='HALASHOW.COM'"
    \o ":x=20:y=40:fontsize=30:fontcolor=white@0.5"

(******************************* claims ************************************)

\* C1: a child that exits non-zero at position i ends the run at once with
\* exit status 1: it is the last child ever started, it is the last exit
\* ever recorded, nothing is running, the error line is printed and the
\* success line is never printed.
C1_FailureStopsRun ==
    \A i \in 1..Len(exits) :
        exits[i] # 0 =>
            /\ pc = "done"
            /\ exitCode = Some(1)
            /\ i = Len(exits)
            /\ Len(dispatched) = i
            /\ \A k \in 1..(i - 1) : dispatched[k].name # dispatched[i].name
            /\ running = {}
            /\ SuccessLine \notin Range(stdout)
            /\ "Error: Encoding failed!" \in Range(stderr)

\* C1 witness: the second of four selected profiles failed
C1_Witness ==
    /\ pc = "done"
    /\ Len(selected) = 4
    /\ Len(exits) = 2
    /\ exits[1] = 0
    /\ exits[2] # 0

\* C2: a run whose children all returned 0 ends with exit status 0 and the
\* success line, having started exactly one child for each profile the
\* command line asks for, whatever repetitions or mix with 'all' it holds.
C2_AllSucceedOncePerProfile ==
    (pc = "done" /\ \A i \in 1..Len(exits) : exits[i] = 0) =>
        /\ exitCode = Some(0)
        /\ SuccessLine \in Range(stdout)
        /\ stderr = <<>>
        /\ Len(exits) = Len(dispatched)
        /\ Len(dispatched) = Cardinality(Wanted)
        /\ \A n \in Wanted :
             Cardinality({k \in 1..Len(dispatched) :
                            \/ dispatched[k].name = n
                            \/ LastToken(dispatched[k].cmd) = "out_" \o n \o ".mp4"}) = 1

\* C2 witness: a successful run of a command line that repeats a name
C2_Witness ==
    /\ pc = "done"
    /\ exitCode = Some(0)
    /\ Typed = <<"360p", "1080p", "360p">>

\* C4: when 'all' is among the requested names, or --resolutions is omitted,
\* the selection is 1080p, 720p, 480p, 360p in that order, the children are
\* started in that order, and a successful run started all four.
C4_AllSelectsFourInOrder ==
    (Parsed /\ WantsAll) =>
        /\ selected = FixedOrder
        /\ Len(dispatched) <= 4
        /\ \A k \in 1..Len(dispatched) : dispatched[k].name = FixedOrder[k]
        /\ (exitCode = Some(0) => Len(dispatched) = 4)

\* C4 witness: 'all' typed after a specific name, all four encoded
C4_Witness ==
    /\ pc = "done"
    /\ exitCode = Some(0)
    /\ Typed = <<"360p", "all">>
    /\ Len(dispatched) = 4

\* C5: a command line with both --soft and --burn is refused by the parser
\* with a non-zero exit status and no child is ever started; so whenever a
\* child is running at most one of the two is set in the request.
C5_SoftBurnExclusive ==
    /\ (SoftSupplied /\ BurnSupplied) =>
          /\ pc = "rejected"
          /\ exitCode # None
          /\ exitCode # Some(0)
          /\ dispatched = <<>>
          /\ running = {}
    /\ running # {} => ~(args.soft # None /\ args.burn # None)

\* C5 witness: both options typed, the run refused
C5_Witness ==
    /\ pc = "rejected"
    /\ SoftSupplied
    /\ BurnSupplied
    /\ argv.soft = Some("subs.srt")

\* C7: every command ends with '<output base>_<profile name>.mp4', no two
\* commands of a run share that output file, and the resolution, bitrate,
\* maxrate, bufsize, audio bitrate and sample rate of a command are those
\* of the profile its output path names.
C7_OutputPathPerProfile ==
    \A k \in 1..Len(dispatched) :
        LET cmd == dispatched[k].cmd
        IN  /\ LastToken(cmd) = args.output \o "_" \o dispatched[k].name \o ".mp4"
            /\ Count(cmd, LastToken(cmd)) = 1
            /\ \A j \in 1..Len(dispatched) :
                 j # k => LastToken(dispatched[j].cmd) # LastToken(cmd)
            /\ \E p \in ProfileNames :
                 /\ LastToken(cmd) = "out_" \o p \o ".mp4"
                 /\ Arg(cmd, "-b:v") = resolutions[p].bitrate
                 /\ Arg(cmd, "-maxrate") = resolutions[p].maxrate
                 /\ Arg(cmd, "-bufsize") = resolutions[p].bufsize
                 /\ Arg(cmd, "-b:a") = resolutions[p].audio
                 /\ Arg(cmd, "-ar") = (IF p \in {"1080p", "720p"} THEN "48000" ELSE "44100")
                 /\ Arg(cmd, "-vf") \in
                       {"scale=" \o resolutions[p].res \o "," \o mid \o OverlayStage :
                          mid \in {"", "subtitles='subs.srt',"}}

\* C7 witness: four commands started in one run
C7_Witness ==
    /\ Len(dispatched) = 4
    /\ pc = "running"

\* C9: at most one child runs at a time; the children are started in the
\* order of the selected list, none skipped; and the child for the next
\* position is started only after the previous one exited with status 0.
C9_Sequential ==
    /\ Cardinality(running) <= 1
    /\ Len(dispatched) = Len(exits) + Cardinality(running)
    /\ (running # {}) = (pc = "running")
    /\ Len(dispatched) <= Len(selected)
    /\ \A k \in 1..Len(dispatched) :
         /\ dispatched[k].pos = k
         /\ dispatched[k].name = selected[k]
         /\ k > 1 => (Len(exits) >= k - 1 /\ exits[k - 1] = 0)

\* C9 witness: the third child is running after two exited with 0
C9_Witness ==
    /\ running = {3}
    /\ exits = <<0, 0>>
    /\ Len(selected) = 3

\* C6: the second input ('-i <subtitle path>'), the map '1:0' and the subtitle
\* codec with its language tag are in a command exactly when soft-subtitle
\* mode is selected, all three together; in burn mode the command has the one
\* input, the two maps 0:v and 0:a, and no token that is the subtitle file.
C6_SoftGroupsIffSoftMode ==
    \A k \in 1..Len(dispatched) :
        LET cmd == dispatched[k].cmd
            secondInput == Len(Args(cmd, "-i")) = 2
            extraMap == "1:0" \in Range(Args(cmd, "-map"))
            subCodec == /\ Args(cmd, "-c:s") = <<"mov_text">>
                        /\ Args(cmd, "-metadata:s:s:0") = <<"language=" \o args.lang>>
        IN  /\ secondInput = SoftSupplied
            /\ extraMap = SoftSupplied
            /\ subCodec = SoftSupplied
            /\ SoftSupplied => Args(cmd, "-i") = <<args.input, argv.soft[1]>>
            /\ BurnSupplied =>
                 /\ Args(cmd, "-i") = <<args.input>>
                 /\ Args(cmd, "-map") = <<"0:v", "0:a">>
                 /\ argv.burn[1] \notin Range(cmd)

\* C8: the filter chain is the comma-joined stages scale, burn-in subtitle,
\* text overlay in that order, the scale stage first, the overlay last and
\* the burn-in stage between them exactly when --burn is given, whatever
\* its value, the empty string included.
C8_FilterChainStages ==
    \A k \in 1..Len(dispatched) :
        Arg(dispatched[k].cmd, "-vf") =
            Join(<<"scale=" \o resolutions[dispatched[k].name].res>>
                 \o (IF BurnSupplied THEN <<"subtitles='" \o argv.burn[1] \o "'">> ELSE <<>>)
                 \o <<OverlayStage>>, ",")

\* C10: under fairness, a run that passed argument parsing reaches Done with
\* exit status 0 after a 0 exit for every selected profile, or with exit
\* status 1; at least one child was started; the run never goes back to
\* Idle or to an earlier profile, and Done is final.
C10_Terminates ==
    /\ [](Parsed => <>(/\ pc = "done"
                       /\ exitCode \in {Some(0), Some(1)}
                       /\ Len(dispatched) >= 1
                       /\ exitCode = Some(0) =>
                            (Len(exits) = Len(selected) /\ \A i \in 1..Len(exits) : exits[i] = 0)))
    /\ [][/\ pc # "idle" => pc' # "idle"
          /\ pc = "done" => pc' = "done"
          /\ idx' >= idx
          /\ Len(dispatched') >= Len(dispatched)]_vars

\* C10 witness: a run that reached Done by a failing first child
C10_Witness ==
    /\ pc = "done"
    /\ exitCode = Some(1)
    /\ Len(dispatched) = 1
    /\ Len(selected) = 2

====
